---- MODULE Spec2Model ----
(***************************************************************************)
(* Turn orchestration of the interactive chat scripts of the repository:   *)
(*   oia.py    ImprovedOpenAIChat  (tools API, concurrent tool batch)       *)
(*   cia.py    AdvancedClaudeChat  (tool_use blocks, one bash tool)         *)
(*   ochatb.py FunOpenAIChat       (legacy function_call, one function)     *)
(*   cchat.py  AdvancedClaudeChat  (no tools)                               *)
(*   ochat.py  FunOpenAIChat       (its model call always raises; its loop  *)
(*                                  is followed in OchatLoopSpec)            *)
(* The state is the session object (self.messages, the locals of the       *)
(* running send_message, the asyncio tasks of process_tool_calls, the      *)
(* conversation file on disk); there is one action per handler step        *)
(* between two suspension points of the event loop.                        *)
(***************************************************************************)
EXTENDS Integers, Sequences, FiniteSets, TLC

\* MAX_TOOL_CALLS is 128 in oia.py:28 and ochatb.py:28; the loop is
\* parametric in it and the model runs it with a small cap.
MAX_TOOL_CALLS == 2
\* largest number of tool requests in one model response
MaxBatch == 2
\* inputs a session receives, lines typed by the user (messages and
\* commands) and tool requests together: enough for one user message and one
\* more tool-requesting response than the cap allows rounds
MaxInputs == MAX_TOOL_CALLS + 2

Variants == {"oia", "cia", "ochatb", "cchat", "ochat"}

VARIABLES
    variant,          \* which script runs the session
    messages,         \* self.messages, the transcript
    pc,               \* position of the session: start, idle (prompt), call, loop, tools,
                      \* quit, interrupted, crashed
    response,         \* local `response` of send_message: the model's latest reply
    tool_call_count,  \* local `tool_call_count` of send_message_async
    tasks,            \* local `tasks` of process_tool_calls / the awaited executor
    disk,             \* the files: the conversation file written by save_conversation
                      \* (exists, doc), whether the latest write raised (failed), the
                      \* history document of the scripts that keep a separate one
    nextId,           \* tool requests issued so far by the model endpoint (the last id)
    sends,            \* lines the user has typed so far (messages and commands)
    modelCalls,       \* model calls made by the current send_message
    preCall,          \* transcript at the moment the latest model call was made
    outcome,          \* how the latest send_message ended
    current_model     \* self.current_model

vars == <<variant, messages, pc, response, tool_call_count, tasks, disk,
          nextId, sends, modelCalls, preCall, outcome, current_model>>

----------------------------------------------------------------------------
\* Turns of the transcript (the dicts appended to self.messages)

NoResponse == [tool_calls |-> <<>>, content |-> "None"]

UserTurn(c) ==
    [role |-> "user", content |-> c, tool_calls |-> <<>>, tool_call_id |-> 0, name |-> ""]

\* message.model_dump() / the assistant_message block list / the legacy message
AssistantRequestTurn(m) ==
    [role |-> "assistant", content |-> m.content, tool_calls |-> m.tool_calls,
     tool_call_id |-> 0, name |-> ""]

\* {"role": "assistant", "content": message.content}
AssistantTextTurn(c) ==
    [role |-> "assistant", content |-> c, tool_calls |-> <<>>, tool_call_id |-> 0, name |-> ""]

\* oia.py: {"tool_call_id", "role": "tool", "name", "content"}
ToolResultTurn(call, result) ==
    [role |-> "tool", content |-> result, tool_calls |-> <<>>,
     tool_call_id |-> call.id, name |-> call.name]

\* cia.py: {"role": "user", "content": [{"type": "tool_result", "tool_use_id", "content"}]}
ClaudeToolResultTurn(call, result) ==
    [role |-> "user", content |-> result, tool_calls |-> <<>>,
     tool_call_id |-> call.id, name |-> "tool_result"]

\* ochatb.py: {"role": "function", "name", "content"}
FunctionResultTurn(call, result) ==
    [role |-> "function", content |-> result, tool_calls |-> <<>>,
     tool_call_id |-> 0, name |-> call.name]

----------------------------------------------------------------------------
\* What the model endpoint can return

ArgKinds == {"valid", "malformed", "missing"}

\* values of the "language" argument of save_and_run_code: one of the
\* extension table that can be executed, the same with a capital letter, one
\* of the table that has no command, one that is not in the table
Languages == {"python", "Python", "javascript", "klingon"}

\* the arguments of a request that is not a well-formed save_and_run_code
NoCode == <<"", FALSE>>

\* <<function name, shape of the arguments, language, execute>> of one tool
\* request; oia.py and cia.py never read the arguments of a tool they do not
\* know, cia.py gets the arguments parsed (tool_use.input), ochatb.py parses
\* them before it compares the name
RequestKinds(v) ==
    CASE v = "oia"    -> {<<"execute_shell_command", a, NoCode[1], NoCode[2]>> : a \in ArgKinds}
                         \cup {<<"save_and_run_code", "valid", l, TRUE>> : l \in Languages}
                         \cup {<<"save_and_run_code", "valid", l, FALSE>> : l \in {"python", "klingon"}}
                         \cup {<<"save_and_run_code", "missing", NoCode[1], NoCode[2]>>}
                         \cup {<<"unknown_tool", "valid", NoCode[1], NoCode[2]>>}
      [] v = "cia"    -> {<<"bash", a, NoCode[1], NoCode[2]>> : a \in {"valid", "missing"}}
                         \cup {<<"unknown_tool", "valid", NoCode[1], NoCode[2]>>}
      [] v = "ochatb" -> {<<n, a, NoCode[1], NoCode[2]>> :
                             n \in {"execute_shell_command", "unknown_tool"}, a \in ArgKinds}
      [] v = "ochat"  -> {<<"execute_shell_command", a, NoCode[1], NoCode[2]>> : a \in ArgKinds}
                         \cup {<<"unknown_tool", "valid", NoCode[1], NoCode[2]>>}
      [] OTHER        -> {}

\* the first request of a session, when it comes alone, is of any kind; the
\* requests after it and the requests of a response with several requests
\* are of these kinds: in oia.py a command, a request whose arguments raise,
\* code to save and run, and a tool the script does not know
CommonKinds(v) ==
    IF v = "oia"
    THEN {<<"execute_shell_command", "valid", NoCode[1], NoCode[2]>>,
          <<"execute_shell_command", "missing", NoCode[1], NoCode[2]>>,
          <<"save_and_run_code", "valid", "python", TRUE>>,
          <<"unknown_tool", "valid", NoCode[1], NoCode[2]>>}
    ELSE RequestKinds(v)

\* the batches a response can carry when n0 inputs are used up, the first
\* request being the k0+1-th of the session: ids are fresh (k0+1, k0+2, ...),
\* the legacy function_call carries no id and is one request (ochat.py
\* passes the one message as the batch); a batch of several requests is the
\* first one of the session and uses up its inputs
Batches(v, n0, k0) ==
    UNION { { [i \in 1..n |-> [id       |-> IF v = "ochatb" THEN 0 ELSE k0 + i,
                               name     |-> f[i][1],
                               args     |-> f[i][2],
                               language |-> f[i][3],
                               execute  |-> f[i][4]]] :
                f \in [1..n -> IF n = 1 /\ k0 = 0 THEN RequestKinds(v) ELSE CommonKinds(v)] }
            : n \in {m \in 1..(IF v \in {"ochatb", "ochat"} THEN 1 ELSE MaxBatch) :
                        n0 + m <= MaxInputs /\ (m > 1 => k0 = 0)} }

TextResponse == [tool_calls |-> <<>>, content |-> "answer"]

\* a response that requests tools carries no text (content is None)
ToolResponses(v, n0, k0) ==
    { [tool_calls |-> b, content |-> "None"] : b \in Batches(v, n0, k0) }

Responses(v, n0, k0) == {TextResponse} \cup ToolResponses(v, n0, k0)

----------------------------------------------------------------------------
\* Persistence: json.dump(self.messages, f)

\* the JSON value of a content: null for None, a string otherwise
json_value(c) == IF c = "None" THEN <<"null">> ELSE <<"string", c>>

\* the requests of the assistant turns are not written
json_dump_without_tool_calls(msgs) ==
    [i \in 1..Len(msgs) |->
        [msgs[i] EXCEPT !.content = json_value(msgs[i].content), !.tool_calls = <<>>]]

json_dump(msgs) ==
    [i \in 1..Len(msgs) |->
        [msgs[i] EXCEPT !.content = json_value(msgs[i].content)]]

\* the Python value of a JSON value
json_parse(j) == IF j = <<"null">> THEN "None" ELSE j[2]

\* json.load(f) of a well-formed file
json_load(doc) ==
    [i \in 1..Len(doc) |-> [doc[i] EXCEPT !.content = json_parse(doc[i].content)]]

\* a history file left by an earlier session
StoredHistory == json_dump(<<UserTurn("msg"), AssistantTextTurn("answer")>>)

----------------------------------------------------------------------------
\* Tool executors.  A task is the coroutine of one tool request:
\*   pending   created by asyncio.create_task, not yet run
\*   running   the child process is spawned, communicate() is awaited
\*   done      the coroutine has returned `result`
\*   cancelled cancelled by the teardown of asyncio.run before it returned
\* It records the child it spawned (none, running, exited), how often it
\* called create_subprocess_shell, the file it wrote (<<second of the
\* timestamp, extension>>) and its rank among the completed tasks of its
\* batch.

KnownTools(v) ==
    CASE v = "oia"    -> {"execute_shell_command", "save_and_run_code"}
      [] v = "cia"    -> {"bash"}
      [] v = "ochatb" -> {"execute_shell_command"}
      [] v = "ochat"  -> {"execute_shell_command"}
      [] OTHER        -> {}

FailureResults == {"nonzero", "timeout", "error"}

Pending(call) ==
    [call |-> call, state |-> "pending", result |-> "", child |-> "none",
     spawns |-> 0, path |-> <<>>, finished |-> 0]

Done(call, r) == [Pending(call) EXCEPT !.state = "done", !.result = r]

\* the table of save_and_run_code_async
ExtensionTable ==
    ("python" :> ".py") @@ ("javascript" :> ".js") @@ ("bash" :> ".sh") @@
    ("c" :> ".c") @@ ("cpp" :> ".cpp") @@ ("java" :> ".java") @@ ("go" :> ".go") @@
    ("ruby" :> ".rb") @@ ("perl" :> ".pl") @@ ("php" :> ".php") @@ ("rust" :> ".rs")

\* language.lower() on the values of Languages
lower(language) == IF language = "Python" THEN "python" ELSE language

\* the lookup falls back to the extension of Python scripts
extension_defaults_to_py(language) ==
    IF lower(language) \in DOMAIN ExtensionTable
    THEN ExtensionTable[lower(language)] ELSE ".py"

\* {...}.get(language.lower(), ".txt")
extension(language) ==
    IF lower(language) \in DOMAIN ExtensionTable
    THEN ExtensionTable[lower(language)] ELSE ".txt"

\* every extension of the table has a command
Executable_every_known_extension(ext) == ext # ".txt"

\* the extensions save_and_run_code_async has a command for
Executable(ext) == ext \in {".py", ".sh", ".go", ".rb"}

\* the string the tool returns for the outcome r of the command: the
\* executor's own string, after "Code saved to ..." for save_and_run_code
ExecResult(call, r) ==
    IF call.name # "save_and_run_code" THEN r
    ELSE CASE r = "stdout"  -> "saved+stdout"
           [] r = "nonzero" -> "saved+nonzero"
           [] r = "timeout" -> "saved+timeout"
           [] OTHER         -> "saved+error"

\* execute_shell_command_async up to `await wait_for(communicate())`:
\* create_subprocess_shell spawns the child, or raises and the string of the
\* exception is returned
Spawn(t) ==
    {[t EXCEPT !.state = "running", !.child = "running", !.spawns = @ + 1],
     [t EXCEPT !.state = "done", !.result = ExecResult(t.call, "error"), !.spawns = @ + 1]}

\* datetime.now() to the second, counted from the first file of the batch:
\* the second of the latest file written by a task that ran earlier, or a
\* later one
Now(earlier) ==
    LET stamps == {earlier[i].path[1] : i \in {j \in 1..Len(earlier) : earlier[j].path # <<>>}}
    IN  IF stamps = {} THEN {0}
        ELSE LET latest == CHOOSE m \in stamps : \A n \in stamps : n <= m
             IN  {latest, latest + 1}

\* save_and_run_code_async up to its first suspension: the file is written
\* under the timestamp name; without `execute` the coroutine returns, for an
\* extension without a command it returns the unsupported-language string,
\* otherwise it runs the command; an exception of the write is returned as
\* a string
save_and_run_code_async(call, earlier) ==
    LET ext        == extension(call.language)
        written(s) == [Pending(call) EXCEPT !.path = <<s, ext>>]
    IN  {Done(call, "error")}
        \cup UNION { IF ~call.execute
                     THEN {[written(s) EXCEPT !.state = "done", !.result = "saved"]}
                     ELSE IF ~Executable(ext)
                     THEN {[written(s) EXCEPT !.state = "done", !.result = "unsupported"]}
                     ELSE Spawn(written(s))
                     : s \in Now(earlier) }

\* first step of the coroutine of `call`, up to its first suspension, the
\* tasks `earlier` of the batch having run theirs
FirstStep(call, earlier) ==
    IF call.name = "save_and_run_code"
    THEN save_and_run_code_async(call, earlier)
    ELSE Spawn(Pending(call))

\* a failed command is run a second time
execute_shell_command_async_retry(t) ==
    IF t.spawns = 1
    THEN {[t EXCEPT !.state = "done", !.result = ExecResult(t.call, "stdout"), !.child = "exited"],
          [t EXCEPT !.spawns = 2]}
    ELSE {[t EXCEPT !.state = "done", !.result = ExecResult(t.call, r),
                    !.child = IF r = "timeout" THEN @ ELSE "exited"] :
             r \in {"stdout", "nonzero", "timeout"}}

\* communicate() is awaited without a timeout: a child that does not exit
\* is waited for forever
execute_shell_command_async_no_timeout(t) ==
    IF t.child = "hanging" THEN {}
    ELSE {[t EXCEPT !.state = "done", !.result = ExecResult(t.call, r), !.child = "exited"] :
             r \in {"stdout", "nonzero"}}
         \cup {[t EXCEPT !.child = "hanging"]}

\* the rest of execute_shell_command_async: communicate() returns with exit
\* status 0 or a non-zero status, or the child has not exited after the
\* timeout and wait_for raises TimeoutError, which cancels communicate() and
\* leaves the child as it is
execute_shell_command_async(t) ==
    {[t EXCEPT !.state = "done", !.result = ExecResult(t.call, r),
               !.child = IF r = "timeout" THEN @ ELSE "exited"] :
        r \in {"stdout", "nonzero", "timeout"}}

\* the task t takes the next rank among the completed tasks of the batch
Ranked(ts, t) ==
    IF t.state # "done" THEN t
    ELSE [t EXCEPT !.finished = 1 + Cardinality({j \in 1..Len(ts) : ts[j].state = "done"})]

AllDone == \A i \in 1..Len(tasks) : tasks[i].state = "done"

\* no conversation file, no history document
NoFiles ==
    [exists |-> FALSE, doc |-> <<>>, failed |-> FALSE,
     history |-> [exists |-> FALSE, doc |-> <<>>]]

\* open(filename, "w") and json.dump(msgs, f) of the conversation file
Written(d, msgs) == [d EXCEPT !.exists = TRUE, !.doc = json_dump(msgs), !.failed = FALSE]

\* the same for the history document
HistoryWritten(d, msgs) ==
    [d EXCEPT !.history = [exists |-> TRUE, doc |-> json_dump(msgs)], !.failed = FALSE]

\* open() or json.dump raises: the file is left as it was
WriteFailed(d) == [d EXCEPT !.failed = TRUE]

\* self.models of __init__
models(v) ==
    CASE v = "oia"    -> <<"gpt-4o-mini", "gpt-4o", "gpt-4-turbo">>
      [] v = "cia"    -> <<"claude-3-5-sonnet-20241022", "claude-3-opus-20240229",
                           "claude-3-sonnet-20240229", "claude-3-haiku-20240307">>
      [] v = "cchat"  -> <<"claude-3-5-sonnet-20240620", "claude-3-opus-20240229",
                           "claude-3-sonnet-20240229", "claude-3-haiku-20240307">>
      [] v = "ochatb" -> <<"gpt-4", "gpt-3.5-turbo">>
      [] OTHER        -> <<"gpt-4o", "gpt-4o-mini">>

\* list.index(x), counted from 0: the first position that holds x
index(list, x) ==
    (CHOOSE i \in 1..Len(list) : list[i] = x /\ \A j \in 1..(i - 1) : list[j] # x) - 1

----------------------------------------------------------------------------
Init ==
    /\ variant \in Variants
    /\ messages = <<>>
    /\ pc = "start"
    /\ response = NoResponse
    /\ tool_call_count = 0
    /\ tasks = <<>>
    /\ disk = NoFiles
    /\ nextId = 0
    /\ sends = 0
    /\ modelCalls = 0
    /\ preCall = <<>>
    /\ outcome = "none"
    /\ current_model = models(variant)[1]

\* load_conversation_history() in __init__: nothing is read when the file
\* does not exist; oia.py, ochatb.py and ochat.py read it into self.messages
\* and do not catch the JSONDecodeError of a corrupt file; cia.py and
\* cchat.py read it into self.conversation_history and handle the error
\* with self.console, which __init__ has not set yet, so the handler raises
\* AttributeError.  conversation.json of oia.py is also the file its
\* save_conversation writes; the other scripts keep a history document of
\* its own.
load_conversation_history ==
    /\ pc = "start"
    /\ \E file \in {"absent", "corrupt", "valid"} :
        CASE file = "absent"  -> /\ pc' = "idle"
                                 /\ UNCHANGED <<messages, sends, disk, outcome>>
          [] file = "corrupt" -> /\ pc' = "crashed"
                                 /\ outcome' = "corrupt"
                                 /\ UNCHANGED <<messages, sends, disk>>
          [] OTHER            -> /\ pc' = "idle"
                                 /\ IF variant \in {"oia", "ochatb", "ochat"}
                                    THEN /\ messages' = json_load(StoredHistory)
                                         /\ sends' = 1
                                    ELSE UNCHANGED <<messages, sends>>
                                 /\ disk' = IF variant = "oia"
                                            THEN [disk EXCEPT !.exists = TRUE, !.doc = StoredHistory]
                                            ELSE [disk EXCEPT !.history =
                                                     [exists |-> TRUE, doc |-> StoredHistory]]
                                 /\ UNCHANGED outcome
    /\ UNCHANGED <<variant, current_model, response, tool_call_count, tasks, nextId, modelCalls, preCall>>

\* save_conversation() at the end of send_message.  A failing write raises:
\* cia.py and cchat.py call it inside their try block, oia.py and ochatb.py
\* outside of any, so there the exception leaves run().
save_conversation(msgs) ==
    \E ok \in BOOLEAN :
        /\ disk' = IF ok THEN Written(disk, msgs) ELSE WriteFailed(disk)
        /\ pc' = IF ok \/ variant \in {"cia", "cchat"} THEN "idle" ELSE "crashed"

\* the conversation is saved before the last turn is appended
FinishSavesBeforeAppend(msgs, how) ==
    /\ messages' = msgs
    /\ outcome' = how
    /\ save_conversation(messages)

\* the tail of send_message: the transcript is `msgs`, the conversation is saved
Finish(msgs, how) ==
    /\ messages' = msgs
    /\ outcome' = how
    /\ save_conversation(msgs)

\* a new user message: the user turn is appended and the first model call is made
SendMessage ==
    /\ pc = "idle"
    /\ sends + nextId < MaxInputs
    /\ messages' = Append(messages, UserTurn("msg"))
    /\ sends' = sends + 1
    /\ pc' = "call"
    /\ modelCalls' = 1
    /\ preCall' = messages'
    /\ tool_call_count' = 0
    /\ response' = NoResponse
    /\ tasks' = <<>>
    /\ outcome' = "none"
    /\ UNCHANGED <<variant, current_model, disk, nextId>>

\* the handler of the exception appends an empty assistant turn
ModelErrorAppendsTurn ==
    /\ pc = "call"
    /\ IF variant \in {"oia", "ochatb"} /\ modelCalls > 1
       THEN Finish(Append(messages, AssistantTextTurn("None")), "transport")
       ELSE /\ messages' = Append(messages, AssistantTextTurn("None"))
            /\ outcome' = "transport"
            /\ pc' = "idle"
            /\ disk' = disk
    /\ tasks' = <<>>
    /\ UNCHANGED <<variant, current_model, response, tool_call_count, nextId, sends,
                   modelCalls, preCall>>

\* the handler of the exception takes the latest turn back
ModelErrorRollsBack ==
    /\ pc = "call"
    /\ IF variant \in {"oia", "ochatb"} /\ modelCalls > 1
       THEN Finish(SubSeq(messages, 1, Len(messages) - 1), "transport")
       ELSE /\ messages' = SubSeq(messages, 1, Len(messages) - 1)
            /\ outcome' = "transport"
            /\ pc' = "idle"
            /\ disk' = disk
    /\ tasks' = <<>>
    /\ UNCHANGED <<variant, current_model, response, tool_call_count, nextId, sends,
                   modelCalls, preCall>>

\* the model call raises (transport error); the tasks of the round before it
\* are history from here on
ModelError ==
    /\ pc = "call"
    /\ IF variant \in {"oia", "ochatb", "ochat"} /\ modelCalls > 1
       THEN Finish(messages, "transport")
       ELSE /\ messages' = messages
            /\ outcome' = "transport"
            /\ pc' = "idle"
            /\ disk' = disk
    /\ tasks' = <<>>
    /\ UNCHANGED <<variant, current_model, response, tool_call_count, nextId, sends,
                   modelCalls, preCall>>

\* the model call returns; in ochat.py the attribute lookup
\* self.client.chat.completion raises before any request is sent
ModelReturn ==
    /\ pc = "call"
    /\ variant # "ochat"
    /\ \E r \in Responses(variant, sends + nextId, nextId) :
        /\ response' = r
        /\ nextId' = IF Len(r.tool_calls) > 1 THEN MaxInputs ELSE nextId + Len(r.tool_calls)
    /\ tasks' = <<>>
    /\ pc' = "loop"
    /\ UNCHANGED <<variant, current_model, messages, tool_call_count, disk, sends,
                   modelCalls, preCall, outcome>>

\* /clear is handled whatever the session is doing
clear_conversation_at_any_time ==
    /\ sends + nextId < MaxInputs
    /\ sends' = sends + 1
    /\ messages # <<>>
    /\ messages' = <<>>
    /\ outcome' = "none"
    /\ UNCHANGED <<variant, current_model, pc, response, tool_call_count, tasks, disk, nextId,
                   modelCalls, preCall>>

\* /clear
clear_conversation ==
    /\ pc = "idle"
    /\ sends + nextId < MaxInputs
    /\ sends' = sends + 1
    /\ messages # <<>>
    /\ messages' = <<>>
    /\ outcome' = "none"
    /\ UNCHANGED <<variant, current_model, pc, response, tool_call_count, tasks, disk, nextId,
                   modelCalls, preCall>>

\* the switch stops at the last entry of the list
next_model_stops_at_last(v, m) ==
    LET current_index == index(models(v), m)
        next_index    == IF current_index + 1 < Len(models(v))
                         THEN current_index + 1 ELSE current_index
    IN  models(v)[next_index + 1]

\* the entry change_model() assigns when the current model is m:
\* self.models[(self.models.index(m) + 1) % len(self.models)]
next_model(v, m) ==
    LET current_index == index(models(v), m)
        next_index    == (current_index + 1) % Len(models(v))
    IN  models(v)[next_index + 1]

\* /model: change_model() assigns the next entry and prints it
change_model ==
    /\ pc = "idle"
    /\ sends + nextId < MaxInputs
    /\ sends' = sends + 1
    /\ current_model' = next_model(variant, current_model)
    /\ UNCHANGED <<variant, messages, pc, response, tool_call_count, tasks, disk,
                   nextId, modelCalls, preCall, outcome>>

\* /save: save_conversation() called from run(), outside of any try
SaveCommand ==
    /\ pc = "idle"
    /\ sends + nextId < MaxInputs
    /\ sends' = sends + 1
    /\ \E ok \in BOOLEAN :
        /\ disk' = IF ok THEN Written(disk, messages) ELSE WriteFailed(disk)
        /\ pc' = IF ok THEN "idle" ELSE "crashed"
    /\ UNCHANGED <<variant, current_model, messages, response, tool_call_count, tasks, nextId,
                   modelCalls, preCall, outcome>>

\* /load of a file that does not exist assigns the empty transcript
load_conversation_missing_clears ==
    /\ pc = "idle"
    /\ sends + nextId < MaxInputs
    /\ sends' = sends + 1
    /\ \E file \in {"missing", "corrupt", "snapshot"} :
        CASE file = "missing" -> /\ outcome' = "notfound"
                                 /\ messages' = <<>>
                                 /\ UNCHANGED pc
          [] file = "corrupt" -> /\ outcome' = "corrupt"
                                 /\ pc' = "crashed"
                                 /\ UNCHANGED messages
          [] OTHER            -> /\ disk.exists
                                 /\ messages' = json_load(disk.doc)
                                 /\ outcome' = "loaded"
                                 /\ UNCHANGED pc
    /\ UNCHANGED <<variant, current_model, response, tool_call_count, tasks, disk, nextId,
                   modelCalls, preCall>>

\* /load <filename>: the file does not exist (FileNotFoundError is caught and
\* reported), it is not well-formed JSON (json.load raises JSONDecodeError,
\* which is not caught and leaves run()), or it is the snapshot
\* save_conversation wrote
load_conversation ==
    /\ pc = "idle"
    /\ sends + nextId < MaxInputs
    /\ sends' = sends + 1
    /\ \E file \in {"missing", "corrupt", "snapshot"} :
        CASE file = "missing" -> /\ outcome' = "notfound"
                                 /\ UNCHANGED <<messages, pc>>
          [] file = "corrupt" -> /\ outcome' = "corrupt"
                                 /\ pc' = "crashed"
                                 /\ UNCHANGED messages
          [] OTHER            -> /\ disk.exists
                                 /\ messages' = json_load(disk.doc)
                                 /\ outcome' = "loaded"
                                 /\ UNCHANGED pc
    /\ UNCHANGED <<variant, current_model, response, tool_call_count, tasks, disk, nextId,
                   modelCalls, preCall>>

\* self.conversation_history of cia.py and cchat.py: assigned by
\* load_conversation_history only, so it is what the history document held
\* when the session started (nothing writes the document before the end)
conversation_history ==
    IF disk.history.exists THEN json_load(disk.history.doc) ELSE <<>>

\* save_conversation_history(): oia.py dumps self.messages to
\* conversation.json, ochatb.py and ochat.py dump self.messages to the
\* history document, cia.py and cchat.py dump self.conversation_history
save_conversation_history(d) ==
    CASE variant = "oia"                -> Written(d, messages)
      [] variant \in {"ochatb", "ochat"} -> HistoryWritten(d, messages)
      [] OTHER                          -> HistoryWritten(d, conversation_history)

\* /quit, /exit, /q: the loop of run() breaks and the history is saved,
\* outside of any try
Quit ==
    /\ pc = "idle"
    /\ sends + nextId < MaxInputs
    /\ \E ok \in BOOLEAN :
        /\ disk' = IF ok THEN save_conversation_history(disk) ELSE WriteFailed(disk)
        /\ pc' = IF ok THEN "quit" ELSE "crashed"
    /\ sends' = sends + 1
    /\ UNCHANGED <<variant, current_model, messages, response, tool_call_count, tasks, nextId,
                   modelCalls, preCall, outcome>>

\* the program is started again in the same directory after a graceful end:
\* __init__ sets self.messages = [] and load_conversation_history() reads the
\* document the ended session wrote, oia.py, ochatb.py and ochat.py into
\* self.messages, cia.py and cchat.py into self.conversation_history
NewSession ==
    /\ pc = "quit"
    /\ messages' = CASE variant = "oia" ->
                          IF disk.exists THEN json_load(disk.doc) ELSE <<>>
                      [] variant \in {"ochatb", "ochat"} ->
                          IF disk.history.exists THEN json_load(disk.history.doc) ELSE <<>>
                      [] OTHER -> <<>>
    /\ pc' = "idle"
    /\ response' = NoResponse
    /\ tool_call_count' = 0
    /\ tasks' = <<>>
    /\ modelCalls' = 0
    /\ preCall' = <<>>
    /\ outcome' = "none"
    /\ current_model' = models(variant)[1]
    /\ UNCHANGED <<variant, disk, nextId, sends>>

\* a task after the interrupt: asyncio.run cancels what has not returned;
\* nothing signals the child of a cancelled executor, which has ended only
\* if the terminal delivered the signal to it as well (`signalled`)
Interrupted(t, signalled) ==
    IF t.state = "done" THEN t
    ELSE [t EXCEPT !.state = "cancelled",
                   !.child = IF @ = "running" /\ signalled THEN "exited" ELSE @]

\* SIGINT while send_message is suspended in `await task`: asyncio.run
\* cancels the main task (CancelledError is not an Exception, so no `except`
\* of send_message catches it and save_conversation is not reached), cancels
\* the tasks that are left and raises KeyboardInterrupt, which leaves run();
\* the handler of ochat.py saves the history before it exits.  The first
\* steps of the created tasks are queued before the cancellation, so every
\* task has run its first step when it is cancelled.
KeyboardInterrupt ==
    /\ pc = "tools"
    /\ \A i \in 1..Len(tasks) : tasks[i].state # "pending"
    /\ \E signalled \in BOOLEAN :
           tasks' = [i \in 1..Len(tasks) |-> Interrupted(tasks[i], signalled)]
    /\ pc' = "interrupted"
    /\ disk' = IF variant = "ochat" THEN HistoryWritten(disk, messages) ELSE disk
    /\ UNCHANGED <<variant, current_model, messages, response, tool_call_count, nextId, sends,
                   modelCalls, preCall, outcome>>

----------------------------------------------------------------------------
\* oia.py: ImprovedOpenAIChat

\* the cap compared with <= : one round too many
WantsToolsInclusive(m, count) == m.tool_calls # <<>> /\ count <= MAX_TOOL_CALLS

\* the cap compared against MAX_TOOL_CALLS - 1 : one round too few
WantsToolsEarly(m, count) == m.tool_calls # <<>> /\ count < MAX_TOOL_CALLS - 1

\* `message.tool_calls and tool_call_count < MAX_TOOL_CALLS`
WantsTools(m, count) == m.tool_calls # <<>> /\ count < MAX_TOOL_CALLS

\* json.loads(arguments) or the lookup of the required key raises
BadArguments(v, call) == call.name \in KnownTools(v) /\ call.args # "valid"

\* position of the first request of the batch whose arguments raise, 0 if none
FirstBad(v, calls) ==
    LET bad == {i \in 1..Len(calls) : BadArguments(v, calls[i])}
    IN  IF bad = {} THEN 0 ELSE CHOOSE i \in bad : \A j \in bad : i <= j

\* first loop of process_tool_calls over the first n requests: one task per
\* request naming execute_shell_command or save_and_run_code, no branch for
\* any other name
create_tasks(calls, n) ==
    LET known == SelectSeq(SubSeq(calls, 1, n), LAMBDA c : c.name \in KnownTools("oia"))
    IN  [i \in 1..Len(known) |-> Pending(known[i])]

\* tasks that were created and are never awaited: the event loop runs their
\* first step after send_message_async has returned, then asyncio.run cancels
\* what is still pending
Cancelled(t) == IF t.state = "running" THEN [t EXCEPT !.state = "cancelled"] ELSE t

Orphaned(ts) ==
    {o \in [1..Len(ts) -> {Cancelled(t) : t \in UNION {FirstStep(ts[i].call, <<>>) : i \in 1..Len(ts)}}] :
        \A i \in 1..Len(ts) : \E t \in FirstStep(ts[i].call, <<>>) : o[i] = Cancelled(t)}

\* the results collected as the tasks complete
tool_results_in_completion_order(ts) ==
    [k \in 1..Len(ts) |->
        LET i == CHOOSE i \in 1..Len(ts) : ts[i].finished = k
        IN  ToolResultTurn(ts[i].call, ts[i].result)]

\* second loop of process_tool_calls: one result per task, in task order
tool_results(ts) ==
    [i \in 1..Len(ts) |-> ToolResultTurn(ts[i].call, ts[i].result)]

\* the results appended before the response that requested them
round_turns_results_first(m, ts) == tool_results(ts) \o <<AssistantRequestTurn(m)>>

\* the response that requested the tools is not recorded
round_turns_without_request(m, ts) == tool_results(ts)

\* self.messages.append(message.model_dump()); self.messages.extend(results)
round_turns(m, ts) == <<AssistantRequestTurn(m)>> \o tool_results(ts)

\* the response is appended before its tools are dispatched
OiaProcessToolCallsRecordsRequest ==
    /\ variant = "oia"
    /\ pc = "loop"
    /\ WantsTools(response, tool_call_count)
    /\ LET calls == response.tool_calls
           bad   == FirstBad("oia", calls)
       IN  IF bad = 0
           THEN /\ tasks' = create_tasks(calls, Len(calls))
                /\ pc' = "tools"
                /\ messages' = Append(messages, AssistantRequestTurn(response))
                /\ UNCHANGED <<disk, outcome>>
           ELSE /\ tasks' \in Orphaned(create_tasks(calls, bad - 1))
                /\ Finish(messages, "toolerror")
    /\ UNCHANGED <<variant, current_model, response, tool_call_count, nextId, sends, modelCalls, preCall>>

\* while-loop body, tool branch, up to `await task`: process_tool_calls
\* creates the tasks; an exception of the creation loop is caught by the
\* `except` of the while loop, which breaks
OiaProcessToolCalls ==
    /\ variant = "oia"
    /\ pc = "loop"
    /\ WantsTools(response, tool_call_count)
    /\ LET calls == response.tool_calls
           bad   == FirstBad("oia", calls)
       IN  IF bad = 0
           THEN /\ tasks' = create_tasks(calls, Len(calls))
                /\ pc' = "tools"
                /\ UNCHANGED <<messages, disk, outcome>>
           ELSE /\ tasks' \in Orphaned(create_tasks(calls, bad - 1))
                /\ Finish(messages, "toolerror")
    /\ UNCHANGED <<variant, current_model, response, tool_call_count, nextId, sends, modelCalls, preCall>>

\* a created task runs its first step while send_message_async is suspended
\* in `await task`; the event loop runs the first steps in creation order
TaskStart ==
    /\ pc = "tools"
    /\ \E i \in 1..Len(tasks) :
        /\ tasks[i].state = "pending"
        /\ \A h \in 1..(i - 1) : tasks[h].state # "pending"
        /\ \E t \in FirstStep(tasks[i].call, SubSeq(tasks, 1, i - 1)) :
               tasks' = [tasks EXCEPT ![i] = Ranked(tasks, t)]
    /\ UNCHANGED <<variant, current_model, messages, pc, response, tool_call_count, disk, nextId,
                   sends, modelCalls, preCall, outcome>>

\* each task is awaited before the next one is started
TaskFinishBeforeSiblingStarts ==
    /\ pc = "tools"
    /\ \E i \in 1..Len(tasks) :
        /\ tasks[i].state = "running"
        /\ \E t \in execute_shell_command_async(tasks[i]) :
               tasks' = [tasks EXCEPT ![i] = Ranked(tasks, t)]
    /\ UNCHANGED <<variant, current_model, messages, pc, response, tool_call_count, disk, nextId,
                   sends, modelCalls, preCall, outcome>>

\* a timeout cancels the tasks that are still running
TaskFinishCancelsSiblings ==
    /\ pc = "tools"
    /\ \A h \in 1..Len(tasks) : tasks[h].state # "pending"
    /\ \E i \in 1..Len(tasks) :
        /\ tasks[i].state = "running"
        /\ \E t \in execute_shell_command_async(tasks[i]) :
               tasks' = [j \in 1..Len(tasks) |->
                            IF j = i THEN Ranked(tasks, t)
                            ELSE IF t.child = "running" THEN Cancelled(tasks[j])
                            ELSE tasks[j]]
    /\ UNCHANGED <<variant, current_model, messages, pc, response, tool_call_count, disk, nextId,
                   sends, modelCalls, preCall, outcome>>

\* the child of a running executor exits, or its timeout expires; the event
\* loop polls for that only after the first steps of all created tasks
TaskFinish ==
    /\ pc = "tools"
    /\ \A h \in 1..Len(tasks) : tasks[h].state # "pending"
    /\ \E i \in 1..Len(tasks) :
        /\ tasks[i].state = "running"
        /\ \E t \in execute_shell_command_async(tasks[i]) :
               tasks' = [tasks EXCEPT ![i] = Ranked(tasks, t)]
    /\ UNCHANGED <<variant, current_model, messages, pc, response, tool_call_count, disk, nextId,
                   sends, modelCalls, preCall, outcome>>

\* every task is awaited: the response and the results are appended, the
\* round is counted and the transcript is resubmitted
OiaJoin ==
    /\ variant = "oia"
    /\ pc = "tools"
    /\ AllDone
    /\ messages' = messages \o round_turns(response, tasks)
    /\ tool_call_count' = tool_call_count + 1
    /\ modelCalls' = modelCalls + 1
    /\ preCall' = messages'
    /\ pc' = "call"
    /\ UNCHANGED <<variant, current_model, response, tasks, disk, nextId, sends, outcome>>

\* else branch: the content of the response is appended as the assistant
\* turn, the loop breaks (also when display_response raises on a None
\* content, which the `except` of the loop catches) and the conversation is
\* saved
OiaFinal ==
    /\ variant = "oia"
    /\ pc = "loop"
    /\ ~WantsTools(response, tool_call_count)
    /\ Finish(Append(messages, AssistantTextTurn(response.content)),
              IF response.tool_calls = <<>> THEN "final" ELSE "cap")
    /\ UNCHANGED <<variant, current_model, response, tool_call_count, tasks, nextId, sends,
                   modelCalls, preCall>>

----------------------------------------------------------------------------
\* cia.py: AdvancedClaudeChat with the bash tool

\* `tool_use`: the last tool_use block of the response
LastToolUse(m) == m.tool_calls[Len(m.tool_calls)]

\* a response whose last tool_use block names bash: the command is read and
\* the executor is awaited; a missing 'command' raises KeyError, which the
\* `except` around the loop reports
CiaToolUse ==
    /\ variant = "cia"
    /\ pc = "loop"
    /\ response.tool_calls # <<>>
    /\ LastToolUse(response).name = "bash"
    /\ IF BadArguments("cia", LastToolUse(response))
       THEN /\ pc' = "idle"
            /\ outcome' = "toolerror"
            /\ UNCHANGED tasks
       ELSE /\ \E t \in FirstStep(LastToolUse(response), <<>>) : tasks' = <<Ranked(<<>>, t)>>
            /\ pc' = "tools"
            /\ UNCHANGED outcome
    /\ UNCHANGED <<variant, current_model, messages, response, tool_call_count, disk, nextId,
                   sends, modelCalls, preCall>>

\* the executor has returned: assistant turn and tool_result turn are
\* appended and the loop continues with the next model call
CiaJoin ==
    /\ variant = "cia"
    /\ pc = "tools"
    /\ AllDone
    /\ messages' = messages \o <<AssistantRequestTurn(response),
                                 ClaudeToolResultTurn(tasks[1].call, tasks[1].result)>>
    /\ modelCalls' = modelCalls + 1
    /\ preCall' = messages'
    /\ pc' = "call"
    /\ UNCHANGED <<variant, current_model, response, tool_call_count, tasks, disk, nextId, sends, outcome>>

\* no tool_use block, or a tool other than bash: the loop breaks, the
\* assistant turn is appended and the conversation is saved
CiaFinal ==
    /\ variant = "cia"
    /\ pc = "loop"
    /\ response.tool_calls # <<>> => LastToolUse(response).name # "bash"
    /\ Finish(Append(messages, AssistantRequestTurn(response)),
              IF response.tool_calls = <<>> THEN "final" ELSE "unknown")
    /\ UNCHANGED <<variant, current_model, response, tool_call_count, tasks, nextId, sends,
                   modelCalls, preCall>>

----------------------------------------------------------------------------
\* ochatb.py: FunOpenAIChat with the legacy function_call

\* a call of an unknown function is appended to the transcript before the
\* loop breaks
OchatbFunctionCallRecordsUnknown ==
    /\ variant = "ochatb"
    /\ pc = "loop"
    /\ WantsTools(response, tool_call_count)
    /\ LET fc == response.tool_calls[1]
       IN  IF fc.args = "malformed" \/ BadArguments("ochatb", fc)
           THEN /\ Finish(messages, "toolerror")
                /\ UNCHANGED tasks
           ELSE IF fc.name \notin KnownTools("ochatb")
           THEN /\ Finish(Append(messages, AssistantRequestTurn(response)), "unknown")
                /\ UNCHANGED tasks
           ELSE /\ \E t \in FirstStep(fc, <<>>) : tasks' = <<Ranked(<<>>, t)>>
                /\ pc' = "tools"
                /\ UNCHANGED <<messages, disk, outcome>>
    /\ UNCHANGED <<variant, current_model, response, tool_call_count, nextId, sends,
                   modelCalls, preCall>>

\* 'function_call' in message and the cap is not reached: the arguments are
\* parsed, then the name is compared, then the command is read and run
OchatbFunctionCall ==
    /\ variant = "ochatb"
    /\ pc = "loop"
    /\ WantsTools(response, tool_call_count)
    /\ LET fc == response.tool_calls[1]
       IN  IF fc.args = "malformed" \/ BadArguments("ochatb", fc)
           THEN /\ Finish(messages, "toolerror")
                /\ UNCHANGED tasks
           ELSE IF fc.name \notin KnownTools("ochatb")
           THEN /\ Finish(messages, "unknown")
                /\ UNCHANGED tasks
           ELSE /\ \E t \in FirstStep(fc, <<>>) : tasks' = <<Ranked(<<>>, t)>>
                /\ pc' = "tools"
                /\ UNCHANGED <<messages, disk, outcome>>
    /\ UNCHANGED <<variant, current_model, response, tool_call_count, nextId, sends, modelCalls, preCall>>

\* the executor has returned: the function-call message and the function
\* result are appended, the round is counted, the transcript is resubmitted
OchatbJoin ==
    /\ variant = "ochatb"
    /\ pc = "tools"
    /\ AllDone
    /\ messages' = messages \o <<AssistantRequestTurn(response),
                                 FunctionResultTurn(tasks[1].call, tasks[1].result)>>
    /\ tool_call_count' = tool_call_count + 1
    /\ modelCalls' = modelCalls + 1
    /\ preCall' = messages'
    /\ pc' = "call"
    /\ UNCHANGED <<variant, current_model, response, tasks, disk, nextId, sends, outcome>>

\* else branch: message["content"] is appended as the assistant turn
OchatbFinal ==
    /\ variant = "ochatb"
    /\ pc = "loop"
    /\ ~WantsTools(response, tool_call_count)
    /\ Finish(Append(messages, AssistantTextTurn(response.content)),
              IF response.tool_calls = <<>> THEN "final" ELSE "cap")
    /\ UNCHANGED <<variant, current_model, response, tool_call_count, tasks, nextId, sends,
                   modelCalls, preCall>>

----------------------------------------------------------------------------
\* cchat.py: AdvancedClaudeChat without tools

\* the text of the response is appended and the conversation is saved
CchatReply ==
    /\ variant = "cchat"
    /\ pc = "loop"
    /\ Finish(Append(messages, AssistantTextTurn(response.content)), "final")
    /\ UNCHANGED <<variant, current_model, response, tool_call_count, tasks, nextId, sends,
                   modelCalls, preCall>>

----------------------------------------------------------------------------
\* ochat.py: FunOpenAIChat.  Its model call is
\* self.client.chat.completion.create, an attribute the client of
\* openai.OpenAI does not have, so in Spec every call raises (ModelError).
\* OchatLoopSpec follows the loop of send_message_async and
\* process_tool_calls as they are written, from the first model call on, with
\* a client that answers the call and messages that have the attributes the
\* code reads.

\* a send_message of ochat.py has appended the user turn and made its call
OchatInit ==
    /\ variant = "ochat"
    /\ messages = <<UserTurn("msg")>>
    /\ pc = "call"
    /\ response = NoResponse
    /\ tool_call_count = 0
    /\ tasks = <<>>
    /\ disk = NoFiles
    /\ nextId = 0
    /\ sends = 1
    /\ modelCalls = 1
    /\ preCall = <<UserTurn("msg")>>
    /\ outcome = "none"
    /\ current_model = models("ochat")[1]

\* the call returns a response
OchatClientAnswers ==
    /\ variant = "ochat"
    /\ pc = "call"
    /\ \E r \in Responses("ochat", sends + nextId, nextId) :
        /\ response' = r
        /\ nextId' = nextId + Len(r.tool_calls)
    /\ tasks' = <<>>
    /\ pc' = "loop"
    /\ UNCHANGED <<variant, current_model, messages, tool_call_count, disk, sends,
                   modelCalls, preCall, outcome>>

\* message.get("function_call") and the cap is not reached:
\* process_tool_calls([message]) creates a task when the name is
\* execute_shell_command, reading the command from the arguments (an
\* exception of that is caught by the `except` of the loop, which breaks),
\* and no task for any other name
OchatProcessToolCalls ==
    /\ variant = "ochat"
    /\ pc = "loop"
    /\ WantsTools(response, tool_call_count)
    /\ LET call == response.tool_calls[1]
       IN  IF BadArguments("ochat", call)
           THEN /\ Finish(messages, "toolerror")
                /\ UNCHANGED tasks
           ELSE /\ tasks' = IF call.name \in KnownTools("ochat") THEN <<Pending(call)>> ELSE <<>>
                /\ pc' = "tools"
                /\ UNCHANGED <<messages, disk, outcome>>
    /\ UNCHANGED <<variant, current_model, response, tool_call_count, nextId, sends, modelCalls, preCall>>

\* process_tool_calls has returned `results`: the message is appended, the
\* round is counted and the transcript is resubmitted; `results` is not used
OchatJoin ==
    /\ variant = "ochat"
    /\ pc = "tools"
    /\ AllDone
    /\ messages' = Append(messages, AssistantRequestTurn(response))
    /\ tool_call_count' = tool_call_count + 1
    /\ modelCalls' = modelCalls + 1
    /\ preCall' = messages'
    /\ pc' = "call"
    /\ UNCHANGED <<variant, current_model, response, tasks, disk, nextId, sends, outcome>>

\* else branch: message.get("content", "") is appended as the assistant turn
OchatFinal ==
    /\ variant = "ochat"
    /\ pc = "loop"
    /\ ~WantsTools(response, tool_call_count)
    /\ Finish(Append(messages, AssistantTextTurn(response.content)),
              IF response.tool_calls = <<>> THEN "final" ELSE "cap")
    /\ UNCHANGED <<variant, current_model, response, tool_call_count, tasks, nextId, sends,
                   modelCalls, preCall>>

OchatNext ==
    \/ OchatClientAnswers
    \/ ModelError
    \/ OchatProcessToolCalls
    \/ TaskStart
    \/ TaskFinish
    \/ OchatJoin
    \/ OchatFinal

OchatLoopSpec == OchatInit /\ [][OchatNext]_vars

----------------------------------------------------------------------------
Next ==
    \/ load_conversation_history
    \/ SaveCommand
    \/ load_conversation
    \/ Quit
    \/ NewSession
    \/ KeyboardInterrupt
    \/ SendMessage
    \/ ModelError
    \/ ModelReturn
    \/ clear_conversation
    \/ change_model
    \/ OiaProcessToolCalls
    \/ TaskStart
    \/ TaskFinish
    \/ OiaJoin
    \/ OiaFinal
    \/ CiaToolUse
    \/ CiaJoin
    \/ CiaFinal
    \/ OchatbFunctionCall
    \/ OchatbJoin
    \/ OchatbFinal
    \/ CchatReply

Spec == Init /\ [][Next]_vars

\* the event loop runs a task that is ready, the timeout of wait_for fires,
\* and send_message_async resumes when the task it awaits is done
LiveSpec == Spec /\ WF_vars(TaskStart \/ TaskFinish \/ OiaJoin)

----------------------------------------------------------------------------
\* Vocabulary of the properties

\* <<turn, position>> of every tool request recorded in a transcript
RequestsOf(msgs) ==
    {<<i, k>> \in (1..Len(msgs)) \X (1..MaxBatch + 1) : k <= Len(msgs[i].tool_calls)}

\* a turn that reports the result of the tool request `id`
IsResultFor(turn, id) ==
    /\ turn.tool_call_id = id
    /\ turn.role = "tool" \/ turn.name = "tool_result"

\* the request at position k of turn i has a result turn later in the transcript
Answered(msgs, i, k) ==
    \E j \in (i + 1)..Len(msgs) : IsResultFor(msgs[j], msgs[i].tool_calls[k].id)

\* position of the user turn of the latest send_message, 0 in an empty transcript
LastUserTurn ==
    LET users == {i \in 1..Len(messages) : messages[i].role = "user" /\ messages[i].name = ""}
    IN  IF users = {} THEN 0 ELSE CHOOSE i \in users : \A j \in users : j <= i

\* tool rounds of the latest send_message recorded in the transcript:
\* assistant turns after its user turn that carry tool requests
ExecutedRounds ==
    Cardinality({i \in (LastUserTurn + 1)..Len(messages) : messages[i].tool_calls # <<>>})

\* send_message has returned (or its exception has left run())
Returned == pc \in {"idle", "crashed"}

\* the text a truncation notice would carry; no response of the model has it
TruncationNote == "tool call limit reached"

\* the requests of a response that name a tool of oia.py, in request order
KnownCalls(m) == SelectSeq(m.tool_calls, LAMBDA c : c.name \in KnownTools("oia"))

\* a round of oia.py has been joined and its resubmission is in flight
Joined == variant = "oia" /\ pc = "call" /\ modelCalls > 1

\* the k-th turn appended after the response of the round that was joined
RoundResult(k) == messages[Len(messages) - Len(tasks) + k]

\* s is an initial part of t
IsPrefix(s, t) == Len(s) <= Len(t) /\ SubSeq(t, 1, Len(s)) = s

\* the rolling history document: conversation.json in oia.py, which is also
\* its conversation file, a document of its own in the other scripts
HistoryDocument ==
    IF variant = "oia" THEN [exists |-> disk.exists, doc |-> disk.doc] ELSE disk.history

\* the turn with which the script v reports the result r of the request call
ResultTurn(v, call, r) ==
    CASE v = "cia"    -> ClaudeToolResultTurn(call, r)
      [] v = "ochatb" -> FunctionResultTurn(call, r)
      [] OTHER        -> ToolResultTurn(call, r)

\* a send_message is in progress: a model call or a tool batch is awaited,
\* or the loop handles a response
InProgress == pc \in {"call", "loop", "tools"}

\* the strings that report a timeout of the command
TimeoutResults == {"timeout", "saved+timeout"}

\* the strings that report the end of a command that was spawned
CommandResults ==
    {"stdout", "nonzero", "timeout", "saved+stdout", "saved+nonzero", "saved+timeout", "saved+error"}

----------------------------------------------------------------------------
\* C1: in oia.py, whenever the tool loop has a model call in flight, every
\* tool request of every assistant response in the transcript has a
\* tool-result turn after it (no partial result set is resubmitted).
C1_NoPartialResubmit ==
    (variant = "oia" /\ pc = "call") =>
        \A r \in RequestsOf(messages) : Answered(messages, r[1], r[2])

\* C2: the number of tool rounds of a send_message (tool_call_count, and the
\* rounds recorded in the transcript) never exceeds MAX_TOOL_CALLS.
C2_RoundsWithinCap ==
    variant \in {"oia", "ochatb"} =>
        /\ tool_call_count <= MAX_TOOL_CALLS
        /\ ExecutedRounds <= MAX_TOOL_CALLS

\* the model still requests a tool when the counter has reached the cap
C2_Witness ==
    /\ variant = "oia"
    /\ pc = "loop"
    /\ tool_call_count = MAX_TOOL_CALLS
    /\ response.tool_calls # <<>>

C4_TruncationTurn ==
    (variant \in {"oia", "ochatb"} /\ outcome = "cap") =>
        LET last == messages[Len(messages)]
        IN  /\ last.role = "assistant"
            /\ last.tool_calls = <<>>
            /\ last.content = TruncationNote

\* C5: in every tool-enabled variant a send_message makes at most
\* MAX_TOOL_CALLS + 1 model calls, whatever the model returns.
C5_CallsBoundedByCap ==
    variant \in {"oia", "cia", "ochatb"} => modelCalls <= MAX_TOOL_CALLS + 1

\* C6: in oia.py every executor that returned a failure value (non-zero
\* exit, timeout, exception of the spawn) has that value in the transcript
\* as the tool-result turn of its request once the loop has moved on, and
\* the loop has not ended on a tool error.
C6_FailureIsResultTurn ==
    \A i \in 1..Len(tasks) :
        (/\ variant = "oia"
         /\ tasks[i].state = "done"
         /\ tasks[i].result \in FailureResults
         /\ pc = "call" \/ (Returned /\ outcome # "none")) =>
            /\ outcome # "toolerror"
            /\ \E j \in 1..Len(messages) :
                   messages[j] = ToolResultTurn(tasks[i].call, tasks[i].result)

\* C7: a tool request with invalid arguments of the response that
\* send_message handled last has a tool-result turn in the transcript when
\* send_message returns; the loop does not end on it.
C7_InvalidArgumentsFedBack ==
    (variant \in {"oia", "cia"} /\ Returned /\ outcome \in {"toolerror", "unknown"}) =>
        \A k \in 1..Len(response.tool_calls) :
            BadArguments(variant, response.tool_calls[k]) =>
                \E j \in 1..Len(messages) :
                    IsResultFor(messages[j], response.tool_calls[k].id)

\* C8: every tool request of the transcript that names an unregistered tool
\* has a tool-result turn after it, and no send_message ends on an unknown
\* tool name.
C8_UnknownToolGetsResult ==
    /\ outcome # "unknown"
    /\ variant \in {"oia", "cia"} =>
        \A r \in RequestsOf(messages) :
            messages[r[1]].tool_calls[r[2]].name \notin KnownTools(variant) =>
                Answered(messages, r[1], r[2])

\* C9: after a send_message that ended on a transport error of a model call
\* the transcript is the transcript as it was when that call was made.
C9_AbortedCallLeavesTranscript ==
    (Returned /\ outcome = "transport") => messages = preCall

\* a resubmission after a tool round of oia.py raised
C9_Witness ==
    /\ variant = "oia"
    /\ outcome = "transport"
    /\ modelCalls > 1
    /\ pc = "idle"

\* C10: in oia.py and cia.py every tool-result turn carries the id of
\* exactly one tool request of the transcript, that request is in an earlier
\* turn, and while a resubmission is in flight the result of every tool of
\* the round is in the transcript.
C10_ResultMatchesOneEarlierRequest ==
    variant \in {"oia", "cia"} =>
        /\ \A j \in 1..Len(messages) :
               messages[j].tool_call_id # 0 =>
                   LET same == {r \in RequestsOf(messages) :
                                   messages[r[1]].tool_calls[r[2]].id = messages[j].tool_call_id}
                   IN  /\ Cardinality(same) = 1
                       /\ \A r \in same : r[1] < j
        /\ (pc = "call" /\ modelCalls > 1) =>
               \A i \in 1..Len(tasks) :
                   \E j \in 1..Len(messages) : IsResultFor(messages[j], tasks[i].call.id)

\* a batch of two tools of oia.py has been answered and resubmitted
C10_Witness ==
    /\ variant = "oia"
    /\ pc = "call"
    /\ Len(tasks) = 2
    /\ \E j \in 1..Len(messages) : messages[j].role = "tool"

----------------------------------------------------------------------------
\* C11: in oia.py, while the loop waits for the tools of a response, every
\* request of the response that names a tool has its task, no task has
\* completed a command while a sibling was not yet started, and once the
\* round is joined every task of the batch is done and has its result turn.
C11_BatchStartedThenJoined ==
    /\ (variant = "oia" /\ pc = "tools") =>
           /\ Len(tasks) = Len(KnownCalls(response))
           /\ \A i \in 1..Len(tasks) : tasks[i].call = KnownCalls(response)[i]
           /\ (\E i \in 1..Len(tasks) : tasks[i].state = "pending") =>
                  \A j \in 1..Len(tasks) : tasks[j].child # "exited"
    /\ Joined =>
           /\ Len(tasks) = Len(KnownCalls(response))
           /\ \A i \in 1..Len(tasks) :
                  /\ tasks[i].state = "done"
                  /\ \E j \in 1..Len(messages) : IsResultFor(messages[j], tasks[i].call.id)

\* every command of a batch of two is running, none has completed
C11_Witness ==
    /\ variant = "oia"
    /\ pc = "tools"
    /\ Len(tasks) = 2
    /\ \A i \in 1..Len(tasks) : tasks[i].state = "running" /\ tasks[i].child = "running"

\* C12 as stated: the result turns of a round are in the order in which the
\* tools completed.
C12_CompletionOrder ==
    Joined =>
        \A i \in 1..Len(tasks) : RoundResult(tasks[i].finished).tool_call_id = tasks[i].call.id

\* C12 amended: the result turns of a round follow the response in the order
\* of the requests, whatever the order in which the tools completed.
C12_RequestOrder ==
    Joined =>
        \A i \in 1..Len(tasks) :
            /\ RoundResult(i).role = "tool"
            /\ RoundResult(i).tool_call_id = KnownCalls(response)[i].id
            /\ RoundResult(i).content = tasks[i].result

\* a joined batch whose second tool completed before its first
C12_Witness ==
    /\ Joined
    /\ Len(tasks) = 2
    /\ tasks[2].finished = 1
    /\ tasks[1].finished = 2

\* C13: in a batch of oia.py in which a tool call has timed out no task is
\* cancelled, and when the round is joined every task has delivered its own
\* result as its result turn.
C13_TimeoutLeavesSiblings ==
    (/\ variant = "oia"
     /\ pc \in {"tools", "call"}
     /\ \E i \in 1..Len(tasks) : tasks[i].result \in TimeoutResults) =>
        \A j \in 1..Len(tasks) :
            /\ tasks[j].state # "cancelled"
            /\ Joined => /\ tasks[j].state = "done"
                         /\ \E k \in 1..Len(messages) :
                                messages[k] = ToolResultTurn(tasks[j].call, tasks[j].result)

\* the first tool of a joined batch timed out, its sibling completed after
\* that with its output
C13_Witness ==
    /\ Joined
    /\ Len(tasks) = 2
    /\ tasks[1].result = "timeout"
    /\ tasks[1].finished = 1
    /\ tasks[2].result = "stdout"
    /\ tasks[2].finished = 2

\* C14: no executor has returned the timeout marker while the child process
\* it spawned is still running.
C14_TimeoutKillsChild ==
    \A i \in 1..Len(tasks) :
        (tasks[i].state = "done" /\ tasks[i].result \in TimeoutResults) =>
            tasks[i].child # "running"

\* C15: in oia.py, whenever the loop waits for the tools of a response, it
\* eventually has every result and resubmits the transcript (the next model
\* call is in flight), also when a command never exits, unless the operator
\* interrupts the session.
C15_BatchCompletes ==
    (variant = "oia" /\ pc = "tools") ~>
        \/ variant = "oia" /\ pc = "call" /\ tool_call_count > 0
        \/ pc = "interrupted"

\* the only command of a round timed out and the round was joined
C15_Witness ==
    /\ Joined
    /\ Len(tasks) = 1
    /\ tasks[1].result = "timeout"
    /\ tasks[1].child = "running"

\* C16: a task spawns its command at most once, exactly once when it reports
\* the end of a command (also a failure or a timeout), and no two tasks of a
\* batch of oia.py belong to the same tool request.
C16_SpawnedOnce ==
    /\ \A i \in 1..Len(tasks) :
           /\ tasks[i].spawns <= 1
           /\ (tasks[i].state = "done" /\ tasks[i].result \in CommandResults) => tasks[i].spawns = 1
           /\ (tasks[i].call.name # "save_and_run_code" /\ tasks[i].state \in {"running", "done"}) =>
                  tasks[i].spawns = 1
    /\ variant = "oia" =>
           \A i, j \in 1..Len(tasks) : tasks[i].call.id = tasks[j].call.id => i = j

\* a command of oia.py failed with a non-zero status and another one timed
\* out
C16_Witness ==
    /\ variant = "oia"
    /\ pc = "tools"
    /\ Len(tasks) = 2
    /\ tasks[1].result = "nonzero"
    /\ tasks[2].result = "timeout"

\* C17: no two tasks of a batch have written the same file.
C17_DistinctPaths ==
    \A i, j \in 1..Len(tasks) :
        (i # j /\ tasks[i].path # <<>>) => tasks[i].path # tasks[j].path

\* C18: a well-formed save_and_run_code request whose language is not in the
\* extension table runs no command and returns: the code is saved under the
\* extension .txt and the result is the unsupported-language string when
\* execute is set, the saved string when it is not (or the write failed and
\* the string of its exception is the result).
C18_UnknownLanguage ==
    \A i \in 1..Len(tasks) :
        (/\ tasks[i].call.name = "save_and_run_code"
         /\ tasks[i].call.args = "valid"
         /\ lower(tasks[i].call.language) \notin DOMAIN ExtensionTable
         /\ tasks[i].state # "pending") =>
            /\ tasks[i].state = "done"
            /\ tasks[i].spawns = 0
            /\ tasks[i].child = "none"
            /\ \/ tasks[i].path = <<>> /\ tasks[i].result = "error"
               \/ /\ tasks[i].path # <<>>
                  /\ tasks[i].path[2] = ".txt"
                  /\ tasks[i].result = IF tasks[i].call.execute THEN "unsupported" ELSE "saved"

\* code in an unknown language was to be executed: it is saved as .txt and
\* the unsupported-language string is its result turn
C18_Witness ==
    /\ Joined
    /\ \E i \in 1..Len(tasks) :
        /\ tasks[i].call.language = "klingon"
        /\ tasks[i].call.execute
        /\ tasks[i].path # <<>>
        /\ tasks[i].result = "unsupported"
        /\ \E k \in 1..Len(messages) : messages[k] = ToolResultTurn(tasks[i].call, "unsupported")

C20_CorruptSnapshotTolerated ==
    outcome = "corrupt" => (pc = "idle" /\ messages = <<>>)

----------------------------------------------------------------------------
\* C21: every step of a session leaves the transcript it found as a prefix
\* of the transcript it leaves (turns are only appended), except the clear
\* command, which leaves the empty transcript, and the load command, which
\* leaves the content of the file; both replace the sequence in one step.
\* (A process started after the session has ended builds its own transcript.)
C21_AppendOnly ==
    [][ \/ IsPrefix(messages, messages')
        \/ pc = "quit"
        \/ clear_conversation /\ messages' = <<>>
        \/ load_conversation /\ (messages' = messages \/ messages' = json_load(disk.doc)) ]_vars

\* a second exchange was appended to the first one
C21_Witness ==
    /\ variant = "cchat"
    /\ pc = "idle"
    /\ outcome = "final"
    /\ Len(messages) = 4

C23_HistoryHoldsTranscript ==
    pc = "quit" =>
        /\ HistoryDocument.exists
        /\ json_load(HistoryDocument.doc) = messages

\* C24: a write of the conversation file or of the history document that
\* raised has not ended the session: the session is not left through the
\* exception (it is at its prompt or has gone on from there).
C24_WriteFailureTolerated ==
    (disk.failed /\ outcome # "corrupt") => pc # "crashed"

\* C25: a session that started with an empty transcript and whose first
\* line was a message, answered by the model with exactly one tool request
\* whose command exited with status 0 and then with final text, has the
\* transcript user, tool request, tool result, assistant text: 4 turns.
C25_OneToolExchange ==
    (/\ variant \in {"oia", "cia", "ochatb"}
     /\ Returned
     /\ outcome = "final"
     /\ sends = 1
     /\ nextId = 1
     /\ \E i \in 1..Len(messages) : messages[i].content = "stdout") =>
        /\ Len(messages) = 4
        /\ messages[1] = UserTurn("msg")
        /\ messages[2].role = "assistant"
        /\ Len(messages[2].tool_calls) = 1
        /\ messages[2].tool_calls[1].name \in KnownTools(variant)
        /\ messages[3] = ResultTurn(variant, messages[2].tool_calls[1], "stdout")
        /\ messages[4] = AssistantTextTurn("answer")

\* oia.py has run one shell command for the first message of the session
\* and has the final answer
C25_Witness ==
    /\ variant = "oia"
    /\ pc = "idle"
    /\ outcome = "final"
    /\ sends = 1
    /\ nextId = 1
    /\ Len(messages) = 4
    /\ messages[3].content = "stdout"

\* C26: after an interrupt that arrived while tools were in flight no task
\* is left running, no child process of the batch is running, and the
\* transcript of oia.py and cia.py holds no request of the interrupted batch
\* without its result turn.
C26_InterruptTerminatesTools ==
    pc = "interrupted" =>
        /\ \A i \in 1..Len(tasks) :
               /\ tasks[i].state \in {"done", "cancelled"}
               /\ tasks[i].child # "running"
        /\ variant \in {"oia", "cia"} =>
               \A i \in 1..Len(tasks) : \A r \in RequestsOf(messages) :
                   messages[r[1]].tool_calls[r[2]].id = tasks[i].call.id =>
                       Answered(messages, r[1], r[2])

\* C27: when send_message has ended on a tool request whose arguments are
\* missing or malformed, no task was created for that request (no child, no
\* file) and the transcript holds a failure turn for it.
C27_ValidationBeforeExecution ==
    (variant \in {"oia", "cia"} /\ Returned /\ outcome = "toolerror") =>
        \A k \in 1..Len(response.tool_calls) :
            BadArguments(variant, response.tool_calls[k]) =>
                /\ \A i \in 1..Len(tasks) : tasks[i].call.id # response.tool_calls[k].id
                /\ \E j \in 1..Len(messages) :
                       /\ IsResultFor(messages[j], response.tool_calls[k].id)
                       /\ messages[j].content \in FailureResults

\* C28 as stated: while the tools of a round are dispatched, the request of
\* every task is recorded in a turn of the transcript.
C28_RequestRecordedBeforeDispatch ==
    pc = "tools" =>
        \A i \in 1..Len(tasks) : \E r \in RequestsOf(messages) :
            messages[r[1]].tool_calls[r[2]] = tasks[i].call

\* C28 amended: while the tools of a round run, the transcript is still the
\* one that was submitted to the model (the request turn is not in it); when
\* every tool has returned the request turn is appended, immediately
\* followed by the result turns, so at the resubmission the request turn
\* precedes its results.
C28_RequestRecordedWithResults ==
    /\ pc = "tools" => messages = preCall
    /\ (pc = "call" /\ modelCalls > 1) =>
           /\ RoundResult(0) = AssistantRequestTurn(response)
           /\ \A k \in 1..Len(tasks) :
                  RoundResult(k) = ResultTurn(variant, tasks[k].call, tasks[k].result)

\* the command of ochatb.py runs and the transcript holds the user turn only
C28_Witness ==
    /\ variant = "ochatb"
    /\ pc = "tools"
    /\ tasks[1].state = "running"
    /\ messages = <<UserTurn("msg")>>

\* C29: while a send_message is in progress no line of the operator is
\* handled (no message, no command) and the transcript changes only by what
\* send_message appends; the tasks of a tool batch do not write it; a line
\* is handled only at the prompt, one per step.
C29_SingleWriter ==
    [][ /\ InProgress => (sends' = sends /\ IsPrefix(messages, messages'))
        /\ (pc = "tools" /\ pc' = "tools") => messages' = messages
        /\ sends' # sends => (pc \in {"start", "idle"} /\ sends' = sends + 1) ]_vars

\* the command of cia.py runs in the second exchange of the session
C29_Witness ==
    /\ variant = "cia"
    /\ pc = "tools"
    /\ tasks[1].state = "running"
    /\ Len(messages) = 3

----------------------------------------------------------------------------
----------------------------------------------------------------------------
\* C31: a session started after a graceful end begins with the transcript the
\* ended session had; a session started without a history file begins with
\* the empty transcript.
C31_HydratedFromHistory ==
    [][ /\ (pc = "quit" /\ pc' = "idle") => messages' = messages
        /\ (pc = "start" /\ pc' = "idle" /\ ~HistoryDocument'.exists)
               => messages' = <<>> ]_vars

\* C32: in cia.py, when the transcript is resubmitted after a tool round,
\* every tool_use block of the assistant turn the round appended has a
\* tool_result with its id in the user turn that follows it.
C32_EveryToolUseAnswered ==
    (variant = "cia" /\ pc = "call" /\ modelCalls > 1) =>
        \A k \in 1..Len(messages[Len(messages) - 1].tool_calls) :
            IsResultFor(messages[Len(messages)],
                        messages[Len(messages) - 1].tool_calls[k].id)

\* C33: once tool_call_count has reached MAX_TOOL_CALLS no tool is running,
\* and the step that handles a response with tool requests creates no task
\* for them (no command is spawned, no file is written), appends exactly
\* one assistant turn without requests and ends send_message.
C33_CapStopsExecution ==
    [][ /\ (tool_call_count >= MAX_TOOL_CALLS /\ variant \in {"oia", "ochatb"})
               => pc' # "tools"
        /\ (/\ pc = "loop"
            /\ variant \in {"oia", "ochatb"}
            /\ tool_call_count >= MAX_TOOL_CALLS
            /\ response.tool_calls # <<>>)
               => /\ tasks' = <<>>
                  /\ messages' = Append(messages, AssistantTextTurn(response.content))
                  /\ tool_call_count' = tool_call_count
                  /\ pc' \in {"idle", "crashed"} ]_vars

\* the third response of oia.py asked for a tool after two executed rounds
C33_Witness ==
    /\ variant = "oia"
    /\ pc = "idle"
    /\ outcome = "cap"
    /\ tool_call_count = MAX_TOOL_CALLS
    /\ response.tool_calls # <<>>
    /\ tasks = <<>>
    /\ ExecutedRounds = MAX_TOOL_CALLS

\* C34: the load command on a file that does not exist reports the missing
\* file, leaves the transcript and the files as they were, and the command
\* loop goes on: the next command is read.
C34_LoadMissingKeepsTranscript ==
    [][ (outcome' = "notfound" /\ sends' # sends /\ load_conversation)
            => /\ messages' = messages
               /\ disk' = disk
               /\ pc = "idle" /\ pc' = "idle" ]_vars

\* a missing file was asked for while the transcript held an exchange, and
\* the exchange is still the transcript at the prompt
C34_Witness ==
    /\ outcome = "notfound"
    /\ pc = "idle"
    /\ Len(messages) = 2
    /\ messages[2].role = "assistant"

\* C35: when the first model call of a send_message has failed, the
\* transcript is the one that was submitted, which ends with the new user
\* turn (the user turn is not taken back); when it has succeeded without a
\* tool request, the transcript is the submitted one, ending with the user
\* turn, followed by exactly one assistant turn.
C35_FirstCallOutcome ==
    /\ (pc = "idle" /\ outcome = "transport" /\ modelCalls = 1) =>
           /\ messages = preCall
           /\ messages[Len(messages)] = UserTurn("msg")
    /\ (Returned /\ outcome = "final" /\ modelCalls = 1) =>
           /\ preCall[Len(preCall)] = UserTurn("msg")
           /\ Len(messages) = Len(preCall) + 1
           /\ IsPrefix(preCall, messages)
           /\ messages[Len(messages)].role = "assistant"
           /\ messages[Len(messages)].tool_calls = <<>>

\* the first model call of the second message of cchat.py has failed
C35_Witness ==
    /\ variant = "cchat"
    /\ pc = "idle"
    /\ outcome = "transport"
    /\ modelCalls = 1
    /\ Len(messages) = 3
    /\ messages[2].role = "assistant"
    /\ messages[3] = UserTurn("msg")

\* C36: a task of save_and_run_code has spawned a command only if execute
\* is true and the language is python, bash, go or ruby; a task that has
\* returned the unsupported-language result was asked to execute another
\* language and has written its code file; a task that was asked to execute
\* another language and has returned has spawned nothing and, unless the
\* write raised, has the file written and the unsupported-language result.
C36_SpawnOnlySupported ==
    \A i \in 1..Len(tasks) :
        LET t         == tasks[i]
            supported == lower(t.call.language) \in {"python", "bash", "go", "ruby"}
        IN  t.call.name = "save_and_run_code" =>
                /\ t.spawns > 0 => (t.call.execute /\ supported)
                /\ t.result = "unsupported" =>
                       (t.call.execute /\ ~supported /\ t.path # <<>>)
                /\ (t.state = "done" /\ t.call.execute /\ ~supported
                        /\ t.result # "error") =>
                       (t.result = "unsupported" /\ t.path # <<>> /\ t.spawns = 0)
                /\ (t.state = "done" /\ ~t.call.execute /\ t.result # "error") =>
                       (t.result = "saved" /\ t.path # <<>>)

\* javascript with execute: the file is written, nothing is spawned, the
\* result names the unsupported language
C36_Witness ==
    /\ variant = "oia"
    /\ Len(tasks) = 1
    /\ tasks[1].call.name = "save_and_run_code"
    /\ tasks[1].call.language = "javascript"
    /\ tasks[1].call.execute
    /\ tasks[1].state = "done"
    /\ tasks[1].result = "unsupported"
    /\ tasks[1].path = <<0, ".js">>
    /\ tasks[1].spawns = 0

\* the names of the models list of the script v
ModelNames(v) == {models(v)[i] : i \in 1..Len(models(v))}

\* the model after k switches that start at the model m
RECURSIVE Switches(_, _, _)
Switches(v, m, k) == IF k = 0 THEN m ELSE Switches(v, next_model(v, m), k - 1)

\* C37: current_model is always an entry of the models list; the model
\* command moves it to the next entry, the first after the last, and leaves
\* the transcript, the files and the position of the session as they were;
\* as many switches as the list has entries lead from the current model back
\* to it (looked at for the model a session starts with and for every model
\* a step assigns); within a session nothing but the model command changes
\* the model.
C37_ModelCycles ==
    [][ /\ current_model \in ModelNames(variant)
        /\ current_model' \in ModelNames(variant)
        /\ (pc = "start" \/ current_model' # current_model) =>
               /\ Switches(variant, current_model, Len(models(variant))) = current_model
               /\ Switches(variant, current_model', Len(models(variant))) = current_model'
        /\ (pc = "idle" /\ sends' # sends /\ change_model) =>
               /\ \E i \in 1..Len(models(variant)) :
                      /\ current_model = models(variant)[i]
                      /\ current_model' = models(variant)[(i % Len(models(variant))) + 1]
               /\ messages' = messages
               /\ disk' = disk
               /\ pc' = pc
        /\ (current_model' # current_model /\ pc # "quit") => change_model ]_vars

\* two switches of oia.py after an exchange: the third model of the list
C37_Witness ==
    /\ variant = "oia"
    /\ pc = "idle"
    /\ current_model = "gpt-4-turbo"
    /\ Len(messages) = 2

\* C38: in ochatb.py the step that ends an executed function-call round
\* appends exactly two turns, the function-call message of the response and
\* a function-result turn with the name of the called function, counts the
\* round and makes one model call; the step that handles a call of an
\* unknown function appends no turn, runs nothing, makes no model call and
\* ends send_message.
C38_OchatbRound ==
    [][ /\ (variant = "ochatb" /\ pc = "tools" /\ pc' \notin {"tools", "interrupted"}) =>
               /\ Len(messages') = Len(messages) + 2
               /\ IsPrefix(messages, messages')
               /\ messages'[Len(messages) + 1] = AssistantRequestTurn(response)
               /\ messages'[Len(messages) + 1].tool_calls # <<>>
               /\ messages'[Len(messages) + 2].role = "function"
               /\ messages'[Len(messages) + 2].name = response.tool_calls[1].name
               /\ messages'[Len(messages) + 2].content = tasks[1].result
               /\ tool_call_count' = tool_call_count + 1
               /\ modelCalls' = modelCalls + 1
               /\ pc' = "call"
        /\ (/\ variant = "ochatb"
            /\ pc = "loop"
            /\ tool_call_count < MAX_TOOL_CALLS
            /\ response.tool_calls # <<>>
            /\ response.tool_calls[1].name \notin KnownTools("ochatb")) =>
               /\ messages' = messages
               /\ tasks' = <<>>
               /\ modelCalls' = modelCalls
               /\ pc' \in {"idle", "crashed"} ]_vars

\* the second model call of a send_message of ochatb.py is in flight after
\* one executed round
C38_Witness ==
    /\ variant = "ochatb"
    /\ pc = "call"
    /\ modelCalls = 2
    /\ tool_call_count = 1
    /\ messages = <<UserTurn("msg"), AssistantRequestTurn(response),
                    FunctionResultTurn(tasks[1].call, "stdout")>>

\* a call of an unknown function has ended the send_message of ochatb.py
\* with the user turn as the whole transcript
C38_UnknownWitness ==
    /\ variant = "ochatb"
    /\ Returned
    /\ outcome = "unknown"
    /\ messages = <<UserTurn("msg")>>

====
